---------------------------- MODULE Spec2Model ----------------------------
(***************************************************************************)
(* A model of the MLB schedule scraper (src/streamlit.py): the page fetch  *)
(* and table location of scrape_team_schedule, the starter-name algorithm  *)
(* get_starter_info, the normaliser format_data_for_gemini_prompt, the     *)
(* text-generation wrapper generate_game_snippet and the button handler    *)
(* that sequences them.  Text is modelled by TLA+ strings; the Python      *)
(* string methods and regular expressions the code uses are operators      *)
(* that compute what the Python computes.                                  *)
(***************************************************************************)
EXTENDS Naturals, Sequences, FiniteSets

VARIABLES
    pc,               \* position of the button handler / of the function under study
    selected_team,    \* selected_team_display_name (line 297)
    gemini_model,     \* TRUE iff GEMINI_API_KEY and gemini_model are set (lines 54-65)
    page,             \* the HTTP response: [ok, tables] (lines 102-109)
    first_data_row,   \* the located <tr>, [cells] with its <td> in order, or None (line 125)
    game_data_raw,    \* the dict returned by scrape_team_schedule (exc: ""), or None (line 314)
    formatted_data,   \* the dict of format_data_for_gemini_prompt (exc: what escaped), or None
    snippet,          \* [value]: the string returned by generate_game_snippet, or None
    ui,               \* what the action displayed so far: a sequence of [kind, text]
    calls             \* how often each step ran in the current action

vars == << pc, selected_team, gemini_model, page, first_data_row, game_data_raw,
           formatted_data, snippet, ui, calls >>

None == [none |-> TRUE]

(***************************************************************************)
(* Python string primitives.                                               *)
(***************************************************************************)
\* s[i:j] on 1-based inclusive positions, clipped to the string like a Python slice
Sub(s, i, j) ==
    LET lo == IF i < 1 THEN 1 ELSE i
        hi == IF j > Len(s) THEN Len(s) ELSE j
    IN  IF lo > hi THEN "" ELSE SubSeq(s, lo, hi)
\* the character at position i, "" outside the string
Ch(s, i) == Sub(s, i, i)

Digits == {"0", "1", "2", "3", "4", "5", "6", "7", "8", "9"}
Uppers == "ABCDEFGHIJKLMNOPQRSTUVWXYZ"
Lowers == "abcdefghijklmnopqrstuvwxyz"
UpperSet == {Ch(Uppers, i) : i \in 1..Len(Uppers)}
LowerSet == {Ch(Lowers, i) : i \in 1..Len(Lowers)}

IsSpace(c) == c \in {" ", "\n", "\t"}
IsDigit(c) == c \in Digits
IsUpper(c) == c \in UpperSet
IsAlnum(c) == c \in Digits \cup UpperSet \cup LowerSet

\* str.lower() and str.upper() on one character
LowerCh(c) ==
    IF c \in UpperSet
    THEN Ch(Lowers, CHOOSE i \in 1..Len(Uppers) : Ch(Uppers, i) = c)
    ELSE c
UpperCh(c) ==
    IF c \in LowerSet
    THEN Ch(Uppers, CHOOSE i \in 1..Len(Lowers) : Ch(Lowers, i) = c)
    ELSE c

RECURSIVE Lower(_)
Lower(s) == IF s = "" THEN "" ELSE LowerCh(Head(s)) \o Lower(Tail(s))
RECURSIVE Upper(_)
Upper(s) == IF s = "" THEN "" ELSE UpperCh(Head(s)) \o Upper(Tail(s))

\* a variant that leaves the rest of the word as it is
CapitalizeFirstOnly(s) == IF s = "" THEN "" ELSE UpperCh(Head(s)) \o Tail(s)

\* str.capitalize(): first character upper-cased, the rest lower-cased
Capitalize(s) == IF s = "" THEN "" ELSE UpperCh(Head(s)) \o Lower(Tail(s))

StartsWith(s, p) == Len(s) >= Len(p) /\ SubSeq(s, 1, Len(p)) = p
EndsWith(s, p) == Len(s) >= Len(p) /\ SubSeq(s, Len(s) - Len(p) + 1, Len(s)) = p
\* `sub in s`
Contains(s, sub) ==
    \E i \in 1..(Len(s) + 1) : i + Len(sub) - 1 <= Len(s) /\ SubSeq(s, i, i + Len(sub) - 1) = sub
From(s, i) == SubSeq(s, i, Len(s))

\* str.strip() with no argument
RECURSIVE LStrip(_)
LStrip(s) == IF s # "" /\ IsSpace(Head(s)) THEN LStrip(Tail(s)) ELSE s
RECURSIVE RStrip(_)
RStrip(s) == IF s # "" /\ IsSpace(Ch(s, Len(s))) THEN RStrip(SubSeq(s, 1, Len(s) - 1)) ELSE s
Strip(s) == LStrip(RStrip(s))

\* str.strip('/')
RECURSIVE LStripCh(_, _)
LStripCh(s, c) == IF s # "" /\ Head(s) = c THEN LStripCh(Tail(s), c) ELSE s
RECURSIVE RStripCh(_, _)
RStripCh(s, c) ==
    IF s # "" /\ Ch(s, Len(s)) = c THEN RStripCh(SubSeq(s, 1, Len(s) - 1), c) ELSE s
StripCh(s, c) == LStripCh(RStripCh(s, c), c)

\* str.split(c) for a one-character separator: never empty, keeps empty pieces
RECURSIVE SplitOn(_, _)
SplitOn(s, c) ==
    IF ~Contains(s, c) THEN << s >>
    ELSE LET i == CHOOSE k \in 1..Len(s) : Ch(s, k) = c /\ \A j \in 1..(k - 1) : Ch(s, j) # c
         IN  << SubSeq(s, 1, i - 1) >> \o SplitOn(From(s, i + 1), c)

\* str.split() with no argument: pieces between runs of whitespace, no empty piece
RECURSIVE SplitWs(_)
SplitWs(s) ==
    LET t == LStrip(s)
    IN  IF t = "" THEN << >>
        ELSE LET n == CHOOSE k \in 1..Len(t) :
                          /\ \A j \in 1..k : ~IsSpace(Ch(t, j))
                          /\ (k = Len(t) \/ IsSpace(Ch(t, k + 1)))
             IN  << SubSeq(t, 1, n) >> \o SplitWs(From(t, n + 1))

\* sep.join(parts)
RECURSIVE Join(_, _)
Join(parts, sep) ==
    IF parts = << >> THEN ""
    ELSE IF Len(parts) = 1 THEN parts[1]
    ELSE parts[1] \o sep \o Join(Tail(parts), sep)

\* str.replace(old, new): every non-overlapping occurrence, left to right
RECURSIVE Replace(_, _, _)
Replace(s, old, new) ==
    IF Len(s) < Len(old) THEN s
    ELSE IF SubSeq(s, 1, Len(old)) = old
         THEN new \o Replace(From(s, Len(old) + 1), old, new)
         ELSE Ch(s, 1) \o Replace(Tail(s), old, new)

(***************************************************************************)
(* Configuration: the team table (lines 12-46).                            *)
(***************************************************************************)
\* << display name, abbreviation, url name, mascot >>
MLB_TEAMS ==
    {
       << "Arizona Diamondbacks", "ARI", "arizona-diamondbacks", "Diamondbacks" >>,
       << "Atlanta Braves", "ATL", "atlanta-braves", "Braves" >>,
       << "Baltimore Orioles", "BAL", "baltimore-orioles", "Orioles" >>,
       << "Boston Red Sox", "BOS", "boston-red-sox", "Red Sox" >>,
       << "Chicago Cubs", "CHC", "chicago-cubs", "Cubs" >>,
       << "Chicago White Sox", "CHW", "chicago-white-sox", "White Sox" >>,
       << "Cincinnati Reds", "CIN", "cincinnati-reds", "Reds" >>,
       << "Cleveland Guardians", "CLE", "cleveland-guardians", "Guardians" >>,
       << "Colorado Rockies", "COL", "colorado-rockies", "Rockies" >>,
       << "Detroit Tigers", "DET", "detroit-tigers", "Tigers" >>,
       << "Houston Astros", "HOU", "houston-astros", "Astros" >>,
       << "Kansas City Royals", "KC", "kansas-city-royals", "Royals" >>,
       << "Los Angeles Angels", "LAA", "los-angeles-angels", "Angels" >>,
       << "Los Angeles Dodgers", "LAD", "los-angeles-dodgers", "Dodgers" >>,
       << "Miami Marlins", "MIA", "miami-marlins", "Marlins" >>,
       << "Milwaukee Brewers", "MIL", "milwaukee-brewers", "Brewers" >>,
       << "Minnesota Twins", "MIN", "minnesota-twins", "Twins" >>,
       << "New York Mets", "NYM", "new-york-mets", "Mets" >>,
       << "New York Yankees", "NYY", "new-york-yankees", "Yankees" >>,
       << "Oakland Athletics", "OAK", "oakland-athletics", "Athletics" >>,
       << "Philadelphia Phillies", "PHI", "philadelphia-phillies", "Phillies" >>,
       << "Pittsburgh Pirates", "PIT", "pittsburgh-pirates", "Pirates" >>,
       << "San Diego Padres", "SD", "san-diego-padres", "Padres" >>,
       << "San Francisco Giants", "SF", "san-francisco-giants", "Giants" >>,
       << "Seattle Mariners", "SEA", "seattle-mariners", "Mariners" >>,
       << "St. Louis Cardinals", "STL", "st-louis-cardinals", "Cardinals" >>,
       << "Tampa Bay Rays", "TB", "tampa-bay-rays", "Rays" >>,
       << "Texas Rangers", "TEX", "texas-rangers", "Rangers" >>,
       << "Toronto Blue Jays", "TOR", "toronto-blue-jays", "Blue Jays" >>,
       << "Washington Nationals", "WSH", "washington-nationals", "Nationals" >>
    }

TeamNames == {t[1] : t \in MLB_TEAMS}
\* MLB_TEAMS[name]: (abbr, url name, mascot)
TeamInfo(name) == LET t == CHOOSE u \in MLB_TEAMS : u[1] = name IN << t[2], t[3], t[4] >>
\* the keys of MLB_TEAMS_BY_ABBR
KnownAbbrs == {t[2] : t \in MLB_TEAMS}
\* MLB_TEAMS_BY_ABBR[abbr][0]
MLB_TEAMS_BY_ABBR(abbr) == (CHOOSE t \in MLB_TEAMS : t[2] = abbr)[1]

generate_team_url(team_abbr, team_url_name) ==
    "https://www.cbssports.com/mlb/teams/" \o Upper(team_abbr) \o "/" \o team_url_name
        \o "/schedule/"

(***************************************************************************)
(* format_data_for_gemini_prompt (lines 156-237).                          *)
(***************************************************************************)
\* the locale's abbreviated and full month names (%b, %B) and the days of each
\* month of 1900, the year strptime assumes when the format has none
MonthAbbr == << "jan", "feb", "mar", "apr", "may", "jun",
                "jul", "aug", "sep", "oct", "nov", "dec" >>
MonthFull == << "January", "February", "March", "April", "May", "June",
                "July", "August", "September", "October", "November", "December" >>
DaysInMonth == << 31, 28, 31, 30, 31, 30, 31, 31, 30, 31, 30, 31 >>

DigitVal(c) == CHOOSE n \in 0..9 : Ch("0123456789", n + 1) = c

\* The day field of %d: 3[0-1] | [1-2]\d | 0[1-9] | [1-9], with nothing left over.
\* 0 when the text is no such field.
DayField(r) ==
    IF Len(r) = 1 /\ IsDigit(r) /\ r # "0" THEN DigitVal(r)
    ELSE IF Len(r) = 2 /\ IsDigit(Ch(r, 1)) /\ IsDigit(Ch(r, 2))
         THEN LET v == 10 * DigitVal(Ch(r, 1)) + DigitVal(Ch(r, 2))
              IN  IF v >= 1 /\ v <= 31 THEN v ELSE 0
         ELSE 0

\* datetime.strptime(s, "%b %d"): month name (any case), whitespace, day; the whole
\* string is consumed and the day exists in that month, else ValueError.
strptime(s) ==
    LET mon   == Lower(Sub(s, 1, 3))
        rest  == From(s, 4)
        day   == DayField(LStrip(rest))
    IN  IF /\ Len(s) >= 5
           /\ \E m \in 1..12 : MonthAbbr[m] = mon
           /\ IsSpace(Ch(rest, 1))
           /\ day > 0
           /\ day <= DaysInMonth[CHOOSE m \in 1..12 : MonthAbbr[m] = mon]
        THEN [ok |-> TRUE, month |-> CHOOSE m \in 1..12 : MonthAbbr[m] = mon, day |-> day]
        ELSE [ok |-> FALSE]

\* dt_obj.strftime("%B %d"): the full month name and the zero-padded day
strftime(dt) ==
    MonthFull[dt.month] \o " " \o Ch("0123456789", (dt.day \div 10) + 1)
        \o Ch("0123456789", (dt.day % 10) + 1)

\* a variant that does not cut a weekday prefix
date_part_whole(date_str) == [exc |-> "", text |-> date_str]

\* lines 160-165: the text handed to strptime; exc names an exception the
\* except clause of line 168 does not catch
date_part_of(date_str) ==
    IF Contains(date_str, ",")
    THEN LET pieces == SplitOn(date_str, ",")
         IN  IF Len(pieces) < 2 THEN [exc |-> "IndexError", text |-> ""]
             ELSE LET part == Strip(pieces[2])
                      words == SplitWs(part)
                  IN  [exc |-> "",
                       text |-> IF Len(words) > 2
                                THEN Join(SubSeq(words, 1, 2), " ")
                                ELSE part]
    ELSE [exc |-> "", text |-> date_str]

\* lines 158-169
format_date(date_str) ==
    LET dp == date_part_of(date_str)
        dt == strptime(dp.text)
    IN  IF dp.exc # "" THEN [exc |-> dp.exc, date |-> ""]
        ELSE IF dt.ok THEN [exc |-> "", date |-> strftime(dt)]
        ELSE [exc |-> "", date |-> date_str]

\* \s*: the first position at or after i that holds no whitespace
RECURSIVE SkipWs(_, _)
SkipWs(s, i) == IF IsSpace(Ch(s, i)) THEN SkipWs(s, i + 1) ELSE i

\* (?:vs\.?|@)\s*([A-Z]{2,3}) tried at position i: group 1, or "" when it fails
OppReAt(s, i) ==
    LET mlen == IF Sub(s, i, i + 1) = "vs" THEN (IF Ch(s, i + 2) = "." THEN 3 ELSE 2)
                ELSE IF Ch(s, i) = "@" THEN 1 ELSE 0
        k    == SkipWs(s, i + mlen)
    IN  IF mlen > 0 /\ IsUpper(Ch(s, k)) /\ IsUpper(Ch(s, k + 1))
        THEN IF IsUpper(Ch(s, k + 2)) THEN Sub(s, k, k + 2) ELSE Sub(s, k, k + 1)
        ELSE ""

\* re.search(r'(?:vs\.?|@)\s*([A-Z]{2,3})', opp_raw).group(1), "" when no match
OppReSearch(s) ==
    IF \E i \in 1..Len(s) : OppReAt(s, i) # ""
    THEN OppReAt(s, CHOOSE i \in 1..Len(s) :
                        OppReAt(s, i) # "" /\ \A j \in 1..(i - 1) : OppReAt(s, j) = "")
    ELSE ""

\* lines 173-185
opponent_full_name(opp_raw) ==
    LET opp_abbr == OppReSearch(opp_raw)
    IN  IF opp_abbr # ""
        THEN IF opp_abbr \in KnownAbbrs THEN MLB_TEAMS_BY_ABBR(opp_abbr) ELSE opp_raw
        ELSE IF opp_raw \in KnownAbbrs
             THEN MLB_TEAMS_BY_ABBR(opp_raw)
             ELSE Strip(Replace(Replace(opp_raw, "vs. ", ""), "@ ", ""))

\* lines 187-190
matchup_conjunction(opp_raw) == IF Contains(opp_raw, "@") THEN "at" ELSE "vs."

\* \d{1,2}:\d{2} tried at position i: the length matched, 0 when it fails
HourMinAt(s, i) ==
    IF /\ IsDigit(Ch(s, i)) /\ IsDigit(Ch(s, i + 1)) /\ Ch(s, i + 2) = ":"
       /\ IsDigit(Ch(s, i + 3)) /\ IsDigit(Ch(s, i + 4))
    THEN 5
    ELSE IF /\ IsDigit(Ch(s, i)) /\ Ch(s, i + 1) = ":"
            /\ IsDigit(Ch(s, i + 2)) /\ IsDigit(Ch(s, i + 3))
         THEN 4
         ELSE 0

IsAP(c) == c \in {"a", "p", "A", "P"}
IsM(c) == c \in {"m", "M"}

\* (\d{1,2}:\d{2})\s*([apAP])\.?[mM]\.? tried at position i
TimeRe1At(s, i) ==
    LET n == HourMinAt(s, i)
        k == SkipWs(s, i + n)
    IN  IF /\ n > 0
           /\ IsAP(Ch(s, k))
           /\ \/ IsM(Ch(s, k + 1))
              \/ (Ch(s, k + 1) = "." /\ IsM(Ch(s, k + 2)))
        THEN [ok |-> TRUE, g1 |-> Sub(s, i, i + n - 1), g2 |-> Ch(s, k)]
        ELSE [ok |-> FALSE]

\* (\d{1,2}:\d{2})([apAP]) tried at position i
TimeRe2At(s, i) ==
    LET n == HourMinAt(s, i)
    IN  IF n > 0 /\ IsAP(Ch(s, i + n))
        THEN [ok |-> TRUE, g1 |-> Sub(s, i, i + n - 1), g2 |-> Ch(s, i + n)]
        ELSE [ok |-> FALSE]

\* lines 196-198: the first pattern searched, then the second
time_match(s) ==
    IF \E i \in 1..Len(s) : TimeRe1At(s, i).ok
    THEN TimeRe1At(s, CHOOSE i \in 1..Len(s) :
                          TimeRe1At(s, i).ok /\ \A j \in 1..(i - 1) : ~TimeRe1At(s, j).ok)
    ELSE IF \E i \in 1..Len(s) : TimeRe2At(s, i).ok
         THEN TimeRe2At(s, CHOOSE i \in 1..Len(s) :
                               TimeRe2At(s, i).ok /\ \A j \in 1..(i - 1) : ~TimeRe2At(s, j).ok)
         ELSE [ok |-> FALSE]

\* lines 193-205
formatted_time(time_tv_raw) ==
    LET m == time_match(time_tv_raw)
    IN  IF m.ok THEN m.g1 \o " " \o Lower(m.g2) \o ".m. ET"
        ELSE IF Contains(Upper(time_tv_raw), "TBD") THEN "TBD"
        ELSE "TBD"

IgnoredWords == {"et", "pm", "am", "p", "a", "p.m.", "a.m."}

\* lines 214-218: the first word that is neither a time nor an ignored word
RECURSIVE FirstTvWord(_)
FirstTvWord(parts) ==
    IF parts = << >> THEN ""
    ELSE IF HourMinAt(Head(parts), 1) = 0 /\ Lower(Head(parts)) \notin IgnoredWords
         THEN Head(parts)
         ELSE FirstTvWord(Tail(parts))

\* lines 208-218: the network candidate
potential_tv_str(time_tv_raw) ==
    IF Contains(time_tv_raw, "/")
    THEN LET pieces == SplitOn(time_tv_raw, "/") IN Strip(pieces[Len(pieces)])
    ELSE IF formatted_time(time_tv_raw) = "TBD" /\ time_tv_raw # "TBD"
         THEN time_tv_raw
         ELSE FirstTvWord(SplitWs(time_tv_raw))

\* lines 207, 221-222: the replacements in dictionary order
tv_replacements(s) ==
    Replace(Replace(Replace(s, "ATV", "Apple TV"), "AMZN", "Amazon"), "MLBN", "MLB Network")

\* lines 194, 220-223
formatted_tv(time_tv_raw) ==
    LET candidate == potential_tv_str(time_tv_raw)
    IN  IF candidate # "" THEN tv_replacements(candidate) ELSE "Not specified"

Placeholders == {"TBD", "N/A", ""}

\* line 228
formatted_venue(venue) == IF venue \notin Placeholders THEN venue ELSE "Venue TBD"

\* the conditional expression of lines 231-235
starter_or_tbd(raw) == IF raw \notin Placeholders THEN raw ELSE "Starter TBD"

\* a variant that ignores the matchup
scraped_team_starter_home_only(game_data) == starter_or_tbd(game_data.Home_starter)

\* lines 230-235
scraped_team_starter(game_data) ==
    IF matchup_conjunction(game_data.OPP_raw) = "vs."
    THEN starter_or_tbd(game_data.Home_starter)
    ELSE starter_or_tbd(game_data.Away_starter)

opponent_starter(game_data) ==
    IF matchup_conjunction(game_data.OPP_raw) = "vs."
    THEN starter_or_tbd(game_data.Away_starter)
    ELSE starter_or_tbd(game_data.Home_starter)

\* lines 156-237; exc names an exception that escapes, "" when the dict is returned
format_data_for_gemini_prompt(game_data, selected_team_info) ==
    LET d == format_date(game_data.Date)
    IN  [exc                  |-> d.exc,
         date                 |-> d.date,
         scraped_team_mascot  |-> selected_team_info[3],
         opponent_full_name   |-> opponent_full_name(game_data.OPP_raw),
         matchup_conjunction  |-> matchup_conjunction(game_data.OPP_raw),
         time                 |-> formatted_time(game_data.Time_TV_raw),
         tv                   |-> formatted_tv(game_data.Time_TV_raw),
         venue                |-> formatted_venue(game_data.Venue),
         scraped_team_starter |-> scraped_team_starter(game_data),
         opponent_starter     |-> opponent_starter(game_data)]

(***************************************************************************)
(* The parsed page.  A cell (<td>) is [anchors, texts]: its <a> elements   *)
(* in document order, each [has_href, href], and its text nodes in         *)
(* document order.  A table is [has_tbody, rows], rows being the <tr> of   *)
(* its <tbody>, each a sequence of cells.                                  *)
(***************************************************************************)
\* BeautifulSoup("<td></td>", "html.parser").td (line 135)
EmptyCell == [anchors |-> << >>, texts |-> << >>]

\* tag.stripped_strings: every text node stripped, the empty ones dropped
RECURSIVE stripped_strings(_)
stripped_strings(texts) ==
    IF texts = << >> THEN << >>
    ELSE IF Strip(Head(texts)) = "" THEN stripped_strings(Tail(texts))
         ELSE << Strip(Head(texts)) >> \o stripped_strings(Tail(texts))

\* " ".join(cell.get_text(separator=" ", strip=True).split()) (lines 137-140)
cell_text(cell) == Join(SplitWs(Join(stripped_strings(cell.texts), " ")), " ")

\* all(c.isalnum() or c == '-' for c in name_slug)
SlugChars(s) == \A i \in 1..Len(s) : IsAlnum(Ch(s, i)) \/ Ch(s, i) = "-"

RECURSIVE CapitalizeAll(_)
CapitalizeAll(parts) ==
    IF parts = << >> THEN << >>
    ELSE << Capitalize(Head(parts)) >> \o CapitalizeAll(Tail(parts))

\* lines 76-87: the name taken from the first <a> of the cell, "" when there is none
\* (None and "" are both false at line 94)
full_name_from_url(cell) ==
    IF cell.anchors # << >> /\ cell.anchors[1].has_href
    THEN LET path_segments == SplitOn(StripCh(cell.anchors[1].href, "/"), "/")
             name_slug == path_segments[Len(path_segments)]
         IN  IF Contains(name_slug, "-") /\ SlugChars(name_slug)
             THEN Join(CapitalizeAll(SplitOn(name_slug, "-")), " ")
             ELSE ""
    ELSE ""

\* lines 90-93: the first fragment that starts with "(" and ends with ")"
RECURSIVE stats_text(_)
stats_text(fragments) ==
    IF fragments = << >> THEN ""
    ELSE IF StartsWith(Head(fragments), "(") /\ EndsWith(Head(fragments), ")")
         THEN Head(fragments)
         ELSE stats_text(Tail(fragments))

\* a variant without the "N/A" sentinel of line 98
get_starter_info_no_sentinel(cell_td) ==
    LET name == full_name_from_url(cell_td)
        cell_all_texts == stripped_strings(cell_td.texts)
    IN  IF name # ""
        THEN Strip(name \o " " \o stats_text(cell_all_texts))
        ELSE Join(cell_all_texts, " ")

\* lines 75-98
get_starter_info(cell_td) ==
    LET name == full_name_from_url(cell_td)
        cell_all_texts == stripped_strings(cell_td.texts)
        original_text == Join(cell_all_texts, " ")
    IN  IF name # ""
        THEN Strip(name \o " " \o stats_text(cell_all_texts))
        ELSE IF original_text # "" THEN original_text ELSE "N/A"

\* a variant that warns about six cells too
short_row_or_six(cells) == Len(cells) <= 6

\* line 132
short_row(cells) == Len(cells) < 6

\* lines 134-135: the cells padded to six
RECURSIVE pad_cells(_)
pad_cells(cells) == IF Len(cells) < 6 THEN pad_cells(Append(cells, EmptyCell)) ELSE cells

\* lines 137-153: the dict built from the (padded) cells; cells[5] of a shorter
\* list raises IndexError
extract_fields(cells, team_display_name) ==
    IF Len(cells) < 6 THEN [exc |-> "IndexError"] ELSE
    [exc                    |-> "",
     Date                   |-> cell_text(cells[1]),
     OPP_raw                |-> cell_text(cells[2]),
     Time_TV_raw            |-> cell_text(cells[3]),
     Venue                  |-> cell_text(cells[4]),
     Home_starter           |-> get_starter_info(cells[5]),
     Away_starter           |-> get_starter_info(cells[6]),
     Scraped_team_full_name |-> team_display_name]

\* a variant that takes the first table of the class as the schedule table
locate_first_row_in_first_table(tables) ==
    IF Len(tables) = 0
    THEN [error |-> "No tables with class 'TableBase-table' found", row |-> None]
    ELSE IF Len(tables) < 2
    THEN [error |-> "Found 1 table(s) with class 'TableBase-table', but expected at least 2",
          row |-> None]
    ELSE IF ~tables[1].has_tbody
    THEN [error |-> "Could not find a <tbody> in the schedule table", row |-> None]
    ELSE IF tables[1].rows = << >>
    THEN [error |-> "No data rows (<tr>) found in the <tbody> of the schedule table",
          row |-> None]
    ELSE [error |-> "", row |-> [cells |-> tables[1].rows[1]]]

\* lines 111-128: where the first row is, or the error that ends the scrape
locate_first_row(tables) ==
    IF Len(tables) = 0
    THEN [error |-> "No tables with class 'TableBase-table' found", row |-> None]
    ELSE IF Len(tables) < 2
    THEN [error |-> "Found 1 table(s) with class 'TableBase-table', but expected at least 2",
          row |-> None]
    ELSE IF ~tables[2].has_tbody
    THEN [error |-> "Could not find a <tbody> in the schedule table", row |-> None]
    ELSE IF tables[2].rows = << >>
    THEN [error |-> "No data rows (<tr>) found in the <tbody> of the schedule table",
          row |-> None]
    ELSE [error |-> "", row |-> [cells |-> tables[2].rows[1]]]

(***************************************************************************)
(* generate_game_snippet (lines 239-281).  The reply of the external call  *)
(* is [exc, parts, text, candidates, finish_reason, safety_ratings].       *)
(***************************************************************************)
generate_game_snippet(model_configured, response) ==
    IF ~model_configured THEN "Gemini API not configured. Cannot generate snippet."
    ELSE IF response.exc # "" THEN "Error generating snippet with Gemini: " \o response.exc
    ELSE IF response.parts THEN Strip(response.text)
    ELSE IF response.candidates /\ response.finish_reason = "SAFETY"
         THEN "Snippet generation failed due to safety settings."
                  \o (IF response.safety_ratings # ""
                      THEN " Details: " \o response.safety_ratings ELSE "")
         ELSE "Gemini returned an empty or blocked response. Check the prompt feedback if available."

\* the condition of line 334: the snippet is shown with its copy button
snippet_is_text(s) ==
    /\ s # ""
    /\ ~StartsWith(s, "Error generating snippet")
    /\ ~StartsWith(s, "Gemini API not configured")
    /\ ~StartsWith(s, "Snippet generation failed")

(***************************************************************************)
(* Bounds and the inputs drawn within them.                                *)
(***************************************************************************)
MaxTables == 3      \* tables of class TableBase-table on a page
MaxCells == 7       \* <td> cells in the first row

Placeholder == "-- Select a Team --"
SampleTeams == {"Philadelphia Phillies", "Kansas City Royals"}

Text(t) == [anchors |-> << >>, texts |-> << t >>]
Link(href, texts) == [anchors |-> << [has_href |-> TRUE, href |-> href] >>, texts |-> texts]

\* two first rows, cut or extended to the number of cells the page has
BaseRowA ==
    << Text("\n  Wed, Jul 4\n"), Text("@ NYM"), Text("7:05 pm ET / ATV"), Text("Citi Field"),
       EmptyCell,
       Link("/mlb/players/2044509/jacob-deGrom/", << "J. deGrom", " ", "(3-2, 2.45)" >>) >>
BaseRowB ==
    << Text("Jul 5"), [anchors |-> << >>, texts |-> << "vs", "\n", "BOS" >>], Text("TBD"),
       Text("Fenway  Park"), Text("TBD"),
       Link("/mlb/players/playerpage/1630093/", << "C. Sale" >>) >>
ExtraCell == Text("Preview")

RowOf(base, n) == [i \in 1..n |-> IF i <= Len(base) THEN base[i] ELSE ExtraCell]
SampleRows == {RowOf(b, n) : b \in {BaseRowA, BaseRowB}, n \in 0..MaxCells}

SampleTables ==
    {[has_tbody |-> FALSE, rows |-> << >>], [has_tbody |-> TRUE, rows |-> << >>]}
      \cup {[has_tbody |-> TRUE, rows |-> << RowOf(BaseRowA, n), RowOf(BaseRowB, 6) >>] :
                n \in 0..MaxCells}
      \cup {[has_tbody |-> TRUE, rows |-> << RowOf(BaseRowB, 6) >>]}

SeqsUpTo(S, n) == UNION {[1..k -> S] : k \in 0..n}
\* the tables around the one the scraper reads vary less than it does
OtherTables ==
    {[has_tbody |-> FALSE, rows |-> << >>], [has_tbody |-> TRUE, rows |-> << >>],
     [has_tbody |-> TRUE, rows |-> << RowOf(BaseRowB, 6) >>],
     [has_tbody |-> TRUE, rows |-> << RowOf(BaseRowA, 3), RowOf(BaseRowB, 6) >>]}
SamplePages ==
    {[tables |-> ts] :
        ts \in {s \in SeqsUpTo(SampleTables, MaxTables) :
                   \A i \in 1..Len(s) : i # 2 => s[i] \in OtherTables}}

\* requests.exceptions.RequestException raised by get or raise_for_status
FetchErrors == {"ConnectionError", "Timeout", "HTTPError"}

SampleResponses ==
    { [exc |-> "", parts |-> TRUE, text |-> " The Phillies visit the New York Mets on July 04.\n",
       candidates |-> TRUE, finish_reason |-> "STOP", safety_ratings |-> ""],
      [exc |-> "", parts |-> TRUE, text |-> "  ",
       candidates |-> TRUE, finish_reason |-> "STOP", safety_ratings |-> ""],
      [exc |-> "429 quota exceeded", parts |-> FALSE, text |-> "",
       candidates |-> FALSE, finish_reason |-> "", safety_ratings |-> ""],
      [exc |-> "", parts |-> FALSE, text |-> "",
       candidates |-> TRUE, finish_reason |-> "SAFETY", safety_ratings |-> "[HARM: HIGH]"],
      [exc |-> "", parts |-> FALSE, text |-> "",
       candidates |-> TRUE, finish_reason |-> "SAFETY", safety_ratings |-> ""],
      [exc |-> "", parts |-> FALSE, text |-> "",
       candidates |-> TRUE, finish_reason |-> "MAX_TOKENS", safety_ratings |-> ""],
      [exc |-> "", parts |-> FALSE, text |-> "",
       candidates |-> FALSE, finish_reason |-> "", safety_ratings |-> ""] }

(***************************************************************************)
(* The button handler (lines 303-375) as a state machine.                  *)
(***************************************************************************)
NoCalls == [fetch |-> 0, locate |-> 0, extract |-> 0, format |-> 0, generate |-> 0]

Show(kind, text) == [kind |-> kind, text |-> text]

Init ==
    /\ pc = "idle"
    /\ selected_team = Placeholder
    /\ gemini_model \in BOOLEAN
    /\ page = None
    /\ first_data_row = None
    /\ game_data_raw = None
    /\ formatted_data = None
    /\ snippet = None
    /\ ui = << Show("info", "Please select an MLB team") >>
    /\ calls = NoCalls

\* lines 297-309, 374-375: a rerun of the script after the selection changed
SelectTeam ==
    /\ pc \in {"idle", "done"}
    /\ \E t \in SampleTeams \cup {Placeholder} :
          /\ t # selected_team
          /\ selected_team' = t
          /\ ui' = IF t = Placeholder
                   THEN << Show("info", "Please select an MLB team") >>
                   ELSE << Show("caption",
                                generate_team_url(TeamInfo(t)[1], TeamInfo(t)[2])) >>
    /\ pc' = "idle"
    /\ page' = None /\ first_data_row' = None /\ game_data_raw' = None
    /\ formatted_data' = None /\ snippet' = None /\ calls' = NoCalls
    /\ UNCHANGED gemini_model

\* lines 311-312: the button is pressed; the script reruns down to the handler
ClickScrape ==
    /\ pc \in {"idle", "done"}
    /\ selected_team # Placeholder
    /\ pc' = "fetch"
    /\ ui' = << >>
    /\ page' = None /\ first_data_row' = None /\ game_data_raw' = None
    /\ formatted_data' = None /\ snippet' = None /\ calls' = NoCalls
    /\ UNCHANGED << selected_team, gemini_model >>

\* a variant that tries a failed GET once more
FetchWithRetry ==
    /\ pc = "fetch"
    /\ calls' = [calls EXCEPT !.fetch = @ + 1]
    /\ \/ \E e \in FetchErrors :
             IF calls.fetch = 0
             THEN /\ ui' = ui
                  /\ page' = None
                  /\ pc' = "fetch"
             ELSE /\ ui' = Append(ui, Show("error", "Error fetching URL: " \o e))
                  /\ page' = None
                  /\ pc' = "scraped"
       \/ \E p \in SamplePages :
             /\ page' = p
             /\ pc' = "locate"
             /\ ui' = ui
    /\ UNCHANGED << selected_team, gemini_model, first_data_row, game_data_raw,
                    formatted_data, snippet >>

\* lines 101-106: one GET; a RequestException is reported and ends the scrape
Fetch ==
    /\ pc = "fetch"
    /\ calls' = [calls EXCEPT !.fetch = @ + 1]
    /\ \/ \E e \in FetchErrors :
             /\ ui' = Append(ui, Show("error", "Error fetching URL: " \o e))
             /\ page' = None
             /\ pc' = "scraped"
       \/ \E p \in SamplePages :
             /\ page' = p
             /\ pc' = "locate"
             /\ ui' = ui
    /\ UNCHANGED << selected_team, gemini_model, first_data_row, game_data_raw,
                    formatted_data, snippet >>

\* lines 108-128
LocateRow ==
    /\ pc = "locate"
    /\ calls' = [calls EXCEPT !.locate = @ + 1]
    /\ LET found == locate_first_row(page.tables)
       IN  IF found.error # ""
           THEN /\ ui' = Append(ui, Show("error", found.error))
                /\ first_data_row' = None
                /\ pc' = "scraped"
           ELSE /\ first_data_row' = found.row
                /\ ui' = ui
                /\ pc' = "extract"
    /\ UNCHANGED << selected_team, gemini_model, page, game_data_raw, formatted_data, snippet >>

\* lines 130-153; an exception that escapes ends the run with Streamlit's traceback
ExtractFields ==
    /\ pc = "extract"
    /\ calls' = [calls EXCEPT !.extract = @ + 1]
    /\ LET warned == IF short_row(first_data_row.cells)
                     THEN Append(ui, Show("warning", "Warning: Expected at least 6 data cells"))
                     ELSE ui
           g == extract_fields(pad_cells(first_data_row.cells), selected_team)
       IN  IF g.exc = ""
           THEN /\ game_data_raw' = g
                /\ ui' = warned
                /\ pc' = "scraped"
           ELSE /\ game_data_raw' = None
                /\ ui' = Append(warned, Show("exception", g.exc))
                /\ pc' = "done"
    /\ UNCHANGED << selected_team, gemini_model, page, first_data_row, formatted_data, snippet >>

\* the six raw fields of lines 320-325
RawFieldLines(g) ==
    << Show("markdown", "**Date:** " \o g.Date),
       Show("markdown", "**OPP (raw):** " \o g.OPP_raw),
       Show("markdown", "**Time / TV (raw):** " \o g.Time_TV_raw),
       Show("markdown", "**Venue:** " \o g.Venue),
       Show("markdown", "**Home starter:** " \o g.Home_starter),
       Show("markdown", "**Away starter:** " \o g.Away_starter) >>

\* lines 314-329 and 370-373: scrape_team_schedule has returned (its locals are gone)
ShowScrape ==
    /\ pc = "scraped"
    /\ page' = None /\ first_data_row' = None
    /\ IF game_data_raw # None
       THEN IF gemini_model
            THEN /\ ui' = ui \o << Show("success", "Successfully scraped data") >>
                             \o RawFieldLines(game_data_raw)
                 /\ pc' = "format"
            ELSE /\ ui' = ui \o << Show("success", "Successfully scraped data") >>
                             \o RawFieldLines(game_data_raw)
                             \o << Show("warning", "Gemini API not configured. AI Snippet cannot be generated.") >>
                 /\ pc' = "done"
       ELSE /\ ui' = Append(ui, Show("warning", "Could not retrieve game data"))
            /\ pc' = "done"
    /\ UNCHANGED << selected_team, gemini_model, game_data_raw, formatted_data, snippet, calls >>

\* line 331; an exception that escapes ends the run with Streamlit's traceback
FormatData ==
    /\ pc = "format"
    /\ calls' = [calls EXCEPT !.format = @ + 1]
    /\ LET f == format_data_for_gemini_prompt(game_data_raw, TeamInfo(selected_team))
       IN  /\ formatted_data' = f
           /\ IF f.exc = ""
              THEN pc' = "generate" /\ ui' = ui
              ELSE pc' = "done" /\ ui' = Append(ui, Show("exception", f.exc))
    /\ UNCHANGED << selected_team, gemini_model, page, first_data_row, game_data_raw, snippet >>

\* line 332
GenerateSnippet ==
    /\ pc = "generate"
    /\ calls' = [calls EXCEPT !.generate = @ + 1]
    /\ \E r \in SampleResponses : snippet' = [value |-> generate_game_snippet(gemini_model, r)]
    /\ pc' = "show"
    /\ UNCHANGED << selected_team, gemini_model, page, first_data_row, game_data_raw,
                    formatted_data, ui >>

\* lines 334-369
ShowSnippet ==
    /\ pc = "show"
    /\ ui' = IF snippet_is_text(snippet.value)
             THEN ui \o << Show("html", "Copy Snippet"),
                           Show("markdown", "> " \o snippet.value) >>
             ELSE Append(ui, Show("warning", snippet.value))
    /\ pc' = "done"
    /\ UNCHANGED << selected_team, gemini_model, page, first_data_row, game_data_raw,
                    formatted_data, snippet, calls >>

Next ==
    \/ SelectTeam
    \/ ClickScrape
    \/ Fetch
    \/ LocateRow
    \/ ExtractFields
    \/ ShowScrape
    \/ FormatData
    \/ GenerateSnippet
    \/ ShowSnippet

Spec == Init /\ [][Next]_vars

(***************************************************************************)
(* The normaliser on its own: every raw row a scrape can return, drawn     *)
(* from token concatenations, in the state ShowScrape leaves.  The fields  *)
(* are normalised independently, the starters depending on the opponent    *)
(* field only; so one field at a time ranges widely.                       *)
(***************************************************************************)
MaxDateTokens == 2
MaxOppTokens == 2
MaxTimeTokens == 2

RECURSIVE Concats(_, _)
Concats(T, n) ==
    IF n = 0 THEN {""}
    ELSE LET prev == Concats(T, n - 1) IN prev \cup {p \o t : p \in prev, t \in T}

\* what lines 137-140 can return: whitespace runs collapsed, ends trimmed
Collapsed(S) == {Join(SplitWs(s), " ") : s \in S}

DateTokens == {"Tue, ", "Jul ", "Feb ", "jul", " ", "4", "29", " 2025", ", "}
OppTokens == {"vs", "vs. ", "@", "@ ", " ", "NYM", "KC", "XYZ", "Mets", "."}
TimeTokens == {"7:05 ", "12:10", "pm ", "p.m. ", "P", "ET ", "/ ", "ATV", "AMZN MLBN",
               "TBD", "tbd ", "FOX"}

\* every concatenation within the bound, and cell texts as the site prints them
SampleDates ==
    Collapsed(Concats(DateTokens, MaxDateTokens))
      \cup {"Tue, Jul 4", "Wed, Feb 29", "Sat, Dec 31", "Jul 04", "Tue, Jul 4 2025", "Tue,jul 4",
            "Tue, Jul 4, 2025", "Tue, Jul 32"}
SampleOpps ==
    Collapsed(Concats(OppTokens, MaxOppTokens))
      \cup {"vs. KC", "vs. XYZ", "vs. Mets", "@ New York Mets", "vs NYM extra", "@ . NYM"}
SampleTimes ==
    Collapsed(Concats(TimeTokens, MaxTimeTokens))
      \cup {"7:05 pm ET / ATV", "7:05 p.m. ET / MLBN", "7:05p AMZN", "Not specified",
            "12:10 p.m. ET / FOX", "7:05 pm ET / AMZN MLBN", "7:05 pm ET", "TBD / ATV"}
SampleVenues == {"Citi Field", "TBD", "N/A", ""}
HomeStarters == {"TBD", "N/A", "", "Starter TBD", "Zack Wheeler (9-4, 2.91)"}
AwayStarters == {"TBD", "N/A", "", "Starter TBD", "Jacob Degrom (3-2, 2.45)"}

RawRow(d, o, t, v, h, a) ==
    [exc |-> "", Date |-> d, OPP_raw |-> o, Time_TV_raw |-> t, Venue |-> v, Home_starter |-> h,
     Away_starter |-> a, Scraped_team_full_name |-> "Philadelphia Phillies"]

SampleRawRows ==
    {RawRow(d, "@ NYM", "7:05 pm ET / ATV", "Citi Field", "", "Jacob Degrom (3-2, 2.45)") :
        d \in SampleDates}
      \cup {RawRow("Tue, Jul 4", o, "TBD", "Citi Field", h, a) :
               o \in SampleOpps, h \in {"TBD", "Zack Wheeler (9-4, 2.91)"},
               a \in {"N/A", "Jacob Degrom (3-2, 2.45)"}}
      \cup {RawRow("Jul 4", o, "7:05 pm ET", v, h, a) :
               o \in {"@ NYM", "vs BOS", "NYM", ""}, v \in SampleVenues,
               h \in HomeStarters, a \in AwayStarters}
      \cup {RawRow("Jul 4", "vs BOS", t, "Fenway Park", "TBD", "TBD") : t \in SampleTimes}

InitNorm ==
    /\ pc = "format"
    /\ selected_team = "Philadelphia Phillies"
    /\ gemini_model = TRUE
    /\ page = None
    /\ first_data_row = None
    /\ game_data_raw \in SampleRawRows
    /\ formatted_data = None
    /\ snippet = None
    /\ ui = << Show("success", "Successfully scraped data") >> \o RawFieldLines(game_data_raw)
    /\ calls = [fetch |-> 1, locate |-> 1, extract |-> 1, format |-> 0, generate |-> 0]

SpecNorm == InitNorm /\ [][FormatData]_vars

(***************************************************************************)
(* The field extractor on its own: first rows of six cells whose starter   *)
(* cells are drawn from sequences of anchors and of text nodes, in the     *)
(* state LocateRow leaves.                                                 *)
(***************************************************************************)
MaxAnchors == 2
MaxTexts == 2

SampleAnchors ==
    {[has_href |-> FALSE, href |-> ""]}
      \cup {[has_href |-> TRUE, href |-> h] :
               h \in {"/mlb/players/2044509/jacob-deGrom/", "zack-wheeler", "/players/ohtani",
                      "/players/-smith", "/-", "/players/j.t.-realmuto/"}}
SampleFragments == {"TBD", "  ", "(3-2, 2.45)", " J. deGrom\n", "("}

\* cells whose anchors range widely, and cells whose text nodes do
SampleAnchorCells ==
    {[anchors |-> a, texts |-> t] :
        a \in SeqsUpTo(SampleAnchors, MaxAnchors),
        t \in SeqsUpTo({"TBD", "(3-2, 2.45)"}, MaxTexts)}
SampleTextCells ==
    {[anchors |-> a, texts |-> t] :
        a \in SeqsUpTo({[has_href |-> TRUE, href |-> "/mlb/players/2044509/jacob-deGrom/"],
                        [has_href |-> TRUE, href |-> "/players/-smith"]}, MaxAnchors),
        t \in SeqsUpTo(SampleFragments, MaxTexts)}

StarterRows ==
    {<< BaseRowA[1], BaseRowA[2], BaseRowA[3], BaseRowA[4], c, BaseRowB[6] >> :
        c \in SampleAnchorCells \cup SampleTextCells}
      \cup {<< BaseRowB[1], BaseRowB[2], BaseRowB[3], BaseRowB[4], BaseRowA[5], c >> :
               c \in SampleAnchorCells \cup SampleTextCells}

InitStarter ==
    /\ pc = "extract"
    /\ selected_team = "Philadelphia Phillies"
    /\ gemini_model = TRUE
    /\ first_data_row \in {[cells |-> r] : r \in StarterRows}
    /\ page = [tables |-> << [has_tbody |-> FALSE, rows |-> << >>],
                             [has_tbody |-> TRUE, rows |-> << first_data_row.cells >>] >>]
    /\ game_data_raw = None
    /\ formatted_data = None
    /\ snippet = None
    /\ ui = << >>
    /\ calls = [fetch |-> 1, locate |-> 1, extract |-> 0, format |-> 0, generate |-> 0]

SpecStarter == InitStarter /\ [][ExtractFields]_vars

(***************************************************************************)
(* Properties.                                                             *)
(***************************************************************************)
Formatted == formatted_data # None
HomeGame == ~Contains(game_data_raw.OPP_raw, "@")
TeamStarterRaw == IF HomeGame THEN game_data_raw.Home_starter ELSE game_data_raw.Away_starter
OppStarterRaw == IF HomeGame THEN game_data_raw.Away_starter ELSE game_data_raw.Home_starter
TbdOrRaw(raw) == IF raw \in {"TBD", "N/A", ""} THEN "Starter TBD" ELSE raw

\* C1 as stated: the matchup is HOME exactly when the raw opponent holds no "@"; the
\* team starter is fed by the home field when HOME and by the away field when AWAY,
\* the opponent starter by the other one; and either output is "Starter TBD"
\* exactly when its raw field is one of "TBD", "N/A", "".
C1_StarterTbdExactlyWhenPlaceholder ==
    Formatted =>
        /\ (formatted_data.matchup_conjunction = "vs.") <=> HomeGame
        /\ (formatted_data.matchup_conjunction = "at") <=> ~HomeGame
        /\ (formatted_data.scraped_team_starter = "Starter TBD")
               <=> (TeamStarterRaw \in {"TBD", "N/A", ""})
        /\ (formatted_data.opponent_starter = "Starter TBD")
               <=> (OppStarterRaw \in {"TBD", "N/A", ""})
        /\ TeamStarterRaw \notin {"TBD", "N/A", ""}
               => formatted_data.scraped_team_starter = TeamStarterRaw
        /\ OppStarterRaw \notin {"TBD", "N/A", ""}
               => formatted_data.opponent_starter = OppStarterRaw

\* C1 amended: the matchup is HOME exactly when the raw opponent holds no "@"; the
\* team starter is fed by the home field when HOME and by the away field when AWAY,
\* the opponent starter by the other one; either output is "Starter TBD" whenever
\* its raw field is one of "TBD", "N/A", "", and is its raw field unchanged otherwise.
C1_StarterAssignment ==
    Formatted =>
        /\ (formatted_data.matchup_conjunction = "vs.") <=> HomeGame
        /\ (formatted_data.matchup_conjunction = "at") <=> ~HomeGame
        /\ formatted_data.scraped_team_starter = TbdOrRaw(TeamStarterRaw)
        /\ formatted_data.opponent_starter = TbdOrRaw(OppStarterRaw)

\* an away game whose home starter is named and whose away starter is a placeholder
C1_Witness ==
    /\ Formatted
    /\ game_data_raw.OPP_raw = "@ NYM"
    /\ game_data_raw.Home_starter = "Zack Wheeler (9-4, 2.91)"
    /\ game_data_raw.Away_starter = "N/A"
    /\ formatted_data.scraped_team_starter = "Starter TBD"
    /\ formatted_data.opponent_starter = "Zack Wheeler (9-4, 2.91)"

\* C5: the raw time/TV string "TBD" yields time "TBD" and tv "Not specified"; the
\* tv output is "Not specified" when the network candidate is empty and otherwise
\* the candidate with ATV, AMZN, MLBN replaced by Apple TV, Amazon, MLB Network.
C5_TbdHasNoNetwork ==
    Formatted =>
        /\ game_data_raw.Time_TV_raw = "TBD"
               => formatted_data.time = "TBD" /\ formatted_data.tv = "Not specified"
        /\ potential_tv_str(game_data_raw.Time_TV_raw) = ""
               => formatted_data.tv = "Not specified"
        /\ potential_tv_str(game_data_raw.Time_TV_raw) # ""
               => formatted_data.tv =
                      Replace(Replace(Replace(potential_tv_str(game_data_raw.Time_TV_raw),
                          "ATV", "Apple TV"), "AMZN", "Amazon"), "MLBN", "MLB Network")

\* the raw string with the literal prefixes "vs. " and "@ " stripped
PrefixesStripped(s) == Strip(Replace(Replace(s, "vs. ", ""), "@ ", ""))

\* C6: if the raw opponent holds a "vs"/"vs."/"@" marker followed by a 2-3 letter
\* uppercase token that is a known abbreviation, or is as a whole a known
\* abbreviation, the opponent name is the franchise's full name ("@ NYM": New York
\* Mets, "vs BOS": Boston Red Sox); in every other case it is the raw string with
\* the literal prefixes "vs. " and "@ " stripped.
C6_OpponentResolution ==
    Formatted =>
        LET raw == game_data_raw.OPP_raw
            token == OppReSearch(raw)
        IN  /\ raw = "@ NYM" => formatted_data.opponent_full_name = "New York Mets"
            /\ raw = "vs BOS" => formatted_data.opponent_full_name = "Boston Red Sox"
            /\ formatted_data.opponent_full_name =
                   IF token \in KnownAbbrs THEN MLB_TEAMS_BY_ABBR(token)
                   ELSE IF Strip(raw) \in KnownAbbrs THEN MLB_TEAMS_BY_ABBR(Strip(raw))
                   ELSE PrefixesStripped(raw)

\* the day as %d prints it and as a page may print it
TwoDigit(d) == Ch("0123456789", (d \div 10) + 1) \o Ch("0123456789", (d % 10) + 1)
ShortDay(d) == IF d < 10 THEN Ch("0123456789", d + 1) ELSE TwoDigit(d)

\* the (month, day) pairs that text spells as an abbreviated month and a day of
\* that month separated by whitespace; empty when it spells none
MonthDays(text) ==
    LET words == SplitWs(text)
    IN  IF Strip(text) = text /\ Len(words) = 2
        THEN LET months == {m \in 1..12 : MonthAbbr[m] = Lower(words[1])}
                 days == {d \in 1..31 : words[2] \in {ShortDay(d), TwoDigit(d)}}
             IN  {md \in months \X days : md[2] <= DaysInMonth[md[1]]}
        ELSE {}

\* the part of the raw date the code tries to parse: what follows the first comma,
\* cut to two words, or the whole string when it holds no comma
ParsedPart(raw) ==
    IF Contains(raw, ",")
    THEN LET after == Strip(SplitOn(raw, ",")[2])
         IN  IF Len(SplitWs(after)) > 2 THEN Join(SubSeq(SplitWs(after), 1, 2), " ") ELSE after
    ELSE raw

\* C8: a raw date with a weekday prefix and comma and the same date without the
\* prefix normalize to the same "full-month-name day" ("Tue, Jul 4" and "Jul 4" to
\* "July 04"); a raw date that cannot be parsed as abbreviated month plus day is
\* passed through unchanged; and the normalization completes without an error.
C8_DateNormalization ==
    Formatted =>
        LET parsed == MonthDays(ParsedPart(game_data_raw.Date))
        IN  /\ formatted_data.exc = ""
            /\ pc = "generate"
            /\ game_data_raw.Date \in {"Tue, Jul 4", "Jul 4"} => formatted_data.date = "July 04"
            /\ \A md \in parsed : formatted_data.date = MonthFull[md[1]] \o " " \o TwoDigit(md[2])
            /\ parsed = {} => formatted_data.date = game_data_raw.Date

\* a prefixed date was normalised
C8_Witness ==
    /\ Formatted
    /\ game_data_raw.Date = "Tue, Jul 4"
    /\ formatted_data.date = "July 04"

Kinds == {ui[i].kind : i \in 1..Len(ui)}
Shown(kind, text) == \E i \in 1..Len(ui) : ui[i].kind = kind /\ ui[i].text = text
ShownPrefix(kind, prefix) == \E i \in 1..Len(ui) : ui[i].kind = kind /\ StartsWith(ui[i].text, prefix)

\* scrape_team_schedule has returned and its page is still at hand
Returned == pc = "scraped" /\ page # None
NoRowError == game_data_raw = None /\ first_data_row = None /\ Kinds = {"error"} /\ Len(ui) = 1

\* C2: with no table of the class the scrape fails with a not-found error; with
\* exactly one it fails with a distinct fewer-than-two error; otherwise the second
\* table (never the first) is selected and the scrape fails with a not-found error
\* if it has no body or the body no row; a row is returned only when the second
\* table has a body with a row, and then its fields come from that body's first row.
C2_SecondTableFirstRow ==
    /\ Returned /\ Len(page.tables) = 0
           => NoRowError /\ ShownPrefix("error", "No tables with class 'TableBase-table' found")
    /\ Returned /\ Len(page.tables) = 1
           => NoRowError /\ ShownPrefix("error", "Found 1 table(s)")
                         /\ ~ShownPrefix("error", "No tables")
    /\ Returned /\ Len(page.tables) >= 2 /\ ~page.tables[2].has_tbody
           => NoRowError /\ ShownPrefix("error", "Could not find a <tbody>")
    /\ Returned /\ Len(page.tables) >= 2 /\ page.tables[2].has_tbody
                /\ page.tables[2].rows = << >>
           => NoRowError /\ ShownPrefix("error", "No data rows")
    /\ pc \in {"extract", "scraped"} /\ first_data_row # None
           => /\ Len(page.tables) >= 2
              /\ page.tables[2].has_tbody
              /\ page.tables[2].rows # << >>
              /\ first_data_row.cells = page.tables[2].rows[1]
    /\ Returned /\ game_data_raw # None
           => /\ Len(page.tables) >= 2
              /\ page.tables[2].has_tbody
              /\ page.tables[2].rows # << >>
              /\ \A i \in 1..4 : i <= Len(page.tables[2].rows[1]) =>
                     << game_data_raw.Date, game_data_raw.OPP_raw, game_data_raw.Time_TV_raw,
                        game_data_raw.Venue >>[i] = cell_text(page.tables[2].rows[1][i])
              /\ 5 <= Len(page.tables[2].rows[1]) =>
                     game_data_raw.Home_starter = get_starter_info(page.tables[2].rows[1][5])
              /\ 6 <= Len(page.tables[2].rows[1]) =>
                     game_data_raw.Away_starter = get_starter_info(page.tables[2].rows[1][6])

\* a row was returned from a page whose first table holds a different first row
C2_Witness ==
    /\ Returned
    /\ game_data_raw # None
    /\ Len(page.tables) = 3
    /\ page.tables[1].has_tbody
    /\ page.tables[1].rows # << >>
    /\ page.tables[1].rows[1] # page.tables[2].rows[1]
    /\ game_data_raw.OPP_raw = "@ NYM"

RawFields(g) ==
    << g.Date, g.OPP_raw, g.Time_TV_raw, g.Venue, g.Home_starter, g.Away_starter >>

\* the fields were extracted from a located row
Extracted == pc = "scraped" /\ first_data_row # None

\* C3: for a located first row of 0 to 5 cells extraction does not abort, a warning
\* (not an error) is emitted, the missing trailing cells are padded with empty
\* placeholders and a complete six-field record is returned; a row of six or more
\* cells emits no warning.
C3_ShortRowTolerated ==
    /\ "exception" \notin Kinds
    /\ Extracted =>
          /\ game_data_raw # None
          /\ {"Date", "OPP_raw", "Time_TV_raw", "Venue", "Home_starter", "Away_starter"}
                 \subseteq DOMAIN game_data_raw
          /\ "error" \notin Kinds
          /\ Len(first_data_row.cells) < 6 => ui = << Show("warning", "Warning: Expected at least 6 data cells") >>
          /\ Len(first_data_row.cells) >= 6 => ui = << >>
          /\ \A i \in 1..6 :
                 RawFields(game_data_raw)[i] =
                     LET cell == IF i <= Len(first_data_row.cells) THEN first_data_row.cells[i]
                                 ELSE [anchors |-> << >>, texts |-> << >>]
                     IN  IF i <= 4 THEN cell_text(cell) ELSE get_starter_info(cell)

\* a row of four cells gave a full record and a warning
C3_Witness ==
    /\ Extracted
    /\ Len(first_data_row.cells) = 4
    /\ game_data_raw.Venue = "Citi Field"
    /\ game_data_raw.Away_starter = "N/A"
    /\ Shown("warning", "Warning: Expected at least 6 data cells")

\* C4 as stated: each of the six fields whose cell is absent from the row has the
\* sentinel value "N/A", and no field is null.
C4_AbsentCellsAreNA ==
    Extracted =>
        /\ game_data_raw # None
        /\ \A i \in 1..6 : RawFields(game_data_raw)[i] \in STRING
        /\ \A i \in 1..6 : i > Len(first_data_row.cells) => RawFields(game_data_raw)[i] = "N/A"

\* C4 amended: each starter field whose cell is absent from the row has the
\* sentinel value "N/A", each of the four text fields (date, opponentRaw,
\* timeAndTvRaw, venue) whose cell is absent is the empty string, and no field is
\* null.
C4_AbsentCells ==
    Extracted =>
        /\ game_data_raw # None
        /\ \A i \in 1..6 : RawFields(game_data_raw)[i] \in STRING
        /\ \A i \in 5..6 : i > Len(first_data_row.cells) => RawFields(game_data_raw)[i] = "N/A"
        /\ \A i \in 1..4 : i > Len(first_data_row.cells) => RawFields(game_data_raw)[i] = ""

\* a row of three cells: the venue and both starter cells are absent
C4_Witness ==
    /\ Extracted
    /\ Len(first_data_row.cells) = 3
    /\ game_data_raw.Venue = ""
    /\ game_data_raw.Home_starter = "N/A"
    /\ game_data_raw.Away_starter = "N/A"

\* the starter cells of the located row and the values extracted from them
StarterCells == << first_data_row.cells[5], first_data_row.cells[6] >>
StarterValues == << game_data_raw.Home_starter, game_data_raw.Away_starter >>

\* the last path segment of an href, slashes at the ends dropped
LastSegment(href) ==
    LET segments == SplitOn(StripCh(href, "/"), "/") IN segments[Len(segments)]
\* a hyphen-joined token of only alphanumerics and hyphens
IsNameSlug(seg) ==
    /\ Contains(seg, "-")
    /\ \A i \in 1..Len(seg) : IsAlnum(Ch(seg, i)) \/ Ch(seg, i) = "-"
\* its parts capitalized and joined by spaces
RECURSIVE SlugName(_)
SlugName(seg) ==
    IF ~Contains(seg, "-") THEN Capitalize(seg)
    ELSE LET i == CHOOSE k \in 1..Len(seg) :
                      Ch(seg, k) = "-" /\ \A j \in 1..(k - 1) : Ch(seg, j) # "-"
         IN  Capitalize(Sub(seg, 1, i - 1)) \o " " \o SlugName(From(seg, i + 1))

\* the text fragments of a cell and the first one in parentheses ("" when none)
Fragments(cell) == stripped_strings(cell.texts)
FirstStats(cell) ==
    LET fs == Fragments(cell)
        hits == {i \in 1..Len(fs) : Ch(fs[i], 1) = "(" /\ Ch(fs[i], Len(fs[i])) = ")"}
    IN  IF hits = {} THEN "" ELSE fs[CHOOSE i \in hits : \A j \in hits : i <= j]
TextOrNA(cell) == IF Join(Fragments(cell), " ") = "" THEN "N/A" ELSE Join(Fragments(cell), " ")

\* the hyperlinks of a cell whose last path segment is a name slug
NameLinks(cell) ==
    {i \in 1..Len(cell.anchors) :
        cell.anchors[i].has_href /\ IsNameSlug(LastSegment(cell.anchors[i].href))}

\* C7 as stated: if the cell has a hyperlink whose last path segment is a
\* hyphen-joined token of only alphanumerics and hyphens, the result is the
\* segment's parts capitalized and joined by spaces, followed by a space and the
\* first fragment in parentheses when one exists, with no trailing whitespace when
\* none exists; otherwise it is all fragments joined by spaces, or "N/A".
C7_AnyHyperlinkNamesStarter ==
    (pc = "scraped" /\ game_data_raw # None) =>
        \A k \in 1..2 :
            LET cell == StarterCells[k]
            IN  IF NameLinks(cell) # {}
                THEN \E i \in NameLinks(cell) :
                         StarterValues[k] =
                             RStrip(SlugName(LastSegment(cell.anchors[i].href))
                                        \o " " \o FirstStats(cell))
                ELSE StarterValues[k] = TextOrNA(cell)

\* C7 amended: if the first hyperlink element of the cell has an href whose last
\* path segment is a hyphen-joined token of only alphanumerics and hyphens, the
\* result is the segment's parts capitalized and joined by spaces, followed by a
\* space and the first fragment in parentheses when one exists, with no leading or
\* trailing whitespace ("jacob-degrom" with "(3-2, 2.45)" gives "Jacob Degrom
\* (3-2, 2.45)"); otherwise it is all fragments joined by spaces (text "TBD" gives
\* "TBD"), or "N/A" when the cell has no text.
C7_FirstHyperlinkNamesStarter ==
    (pc = "scraped" /\ game_data_raw # None) =>
        \A k \in 1..2 :
            LET cell == StarterCells[k]
            IN  /\ StarterValues[k] =
                       IF 1 \in NameLinks(cell)
                       THEN Strip(SlugName(LastSegment(cell.anchors[1].href))
                                      \o " " \o FirstStats(cell))
                       ELSE TextOrNA(cell)
                /\ (1 \in NameLinks(cell) /\ LastSegment(cell.anchors[1].href) = "jacob-deGrom"
                       /\ FirstStats(cell) = "(3-2, 2.45)")
                       => StarterValues[k] = "Jacob Degrom (3-2, 2.45)"
                /\ (cell.anchors = << >> /\ cell.texts = << "TBD" >>) => StarterValues[k] = "TBD"
                /\ (cell.anchors = << >> /\ cell.texts = << >>) => StarterValues[k] = "N/A"

\* a linked starter with a stats fragment was extracted
C7_Witness ==
    /\ pc = "scraped"
    /\ game_data_raw # None
    /\ Len(first_data_row.cells[5].anchors) = 2
    /\ first_data_row.cells[5].anchors[1].href = "/mlb/players/2044509/jacob-deGrom/"
    /\ first_data_row.cells[5].texts = << " J. deGrom\n", "(3-2, 2.45)" >>
    /\ game_data_raw.Home_starter = "Jacob Degrom (3-2, 2.45)"

InAction == pc \notin {"idle"}
Ended == pc = "done"
\* the fetch failed (no page) or the table, body or row was not located
ScrapeFailed ==
    /\ pc = "scraped"
    /\ \/ page = None
       \/ Len(page.tables) < 2
       \/ ~page.tables[2].has_tbody
       \/ page.tables[2].rows = << >>

\* C9: within one scrape action the page is fetched exactly once and never again;
\* if the fetch fails or the table, body or row cannot be located, the action ends
\* with an error message and no field extraction, normalization or generation call
\* happens in it; normalization and generation happen only after a successful
\* scrape; and every action ends in a displayed result or a displayed error/warning.
C9_SingleFetchNoRetry ==
    /\ calls.fetch <= 1
    /\ pc \in {"locate", "extract", "scraped", "format", "generate", "show", "done"}
           => calls.fetch = 1
    /\ ScrapeFailed =>
           /\ game_data_raw = None
           /\ "error" \in Kinds
           /\ calls.extract = 0
    /\ (InAction /\ game_data_raw = None) =>
           /\ calls.format = 0 /\ calls.generate = 0
           /\ formatted_data = None /\ snippet = None
    /\ (Ended /\ game_data_raw = None) =>
           /\ "error" \in Kinds
           /\ ui[Len(ui)] = Show("warning", "Could not retrieve game data")
           /\ calls.extract = 0
    /\ calls.format <= 1 /\ calls.generate <= 1
    /\ calls.format = 1 => (game_data_raw # None /\ calls.extract = 1 /\ "error" \notin Kinds)
    /\ calls.generate = 1 => (calls.format = 1 /\ formatted_data # None)
    /\ Ended => (Kinds \cap {"error", "warning"} # {} \/ ShownPrefix("markdown", "> "))
    /\ (Ended /\ game_data_raw # None) => Shown("success", "Successfully scraped data")

\* an action ended after a failed fetch
C9_Witness ==
    /\ Ended
    /\ calls = [fetch |-> 1, locate |-> 0, extract |-> 0, format |-> 0, generate |-> 0]
    /\ ShownPrefix("error", "Error fetching URL")

\* the diagnostics generate_game_snippet returns in place of a generated text
IsDiagnostic(s) ==
    \/ s = "Gemini API not configured. Cannot generate snippet."
    \/ StartsWith(s, "Error generating snippet with Gemini: ")
    \/ StartsWith(s, "Snippet generation failed due to safety settings.")
    \/ s = "Gemini returned an empty or blocked response. Check the prompt feedback if available."

\* C10: after a successful scrape the copy affordance is offered only when
\* generate_game_snippet returned a generated text; for every diagnostic outcome
\* (not configured, exception, safety-filtered, empty or blocked) no copy affordance
\* is offered and the diagnostic is shown as a warning, while the six raw fields
\* remain displayed.
C10_CopyOnlyForGeneratedText ==
    (Ended /\ game_data_raw # None) =>
        /\ \A i \in 1..6 : \E j \in 1..Len(ui) : ui[j] = RawFieldLines(game_data_raw)[i]
        /\ Shown("html", "Copy Snippet") => (snippet # None /\ ~IsDiagnostic(snippet.value))
        /\ ~gemini_model =>
               /\ ~Shown("html", "Copy Snippet")
               /\ ShownPrefix("warning", "Gemini API not configured")
        /\ (snippet # None /\ IsDiagnostic(snippet.value)) =>
               /\ ~Shown("html", "Copy Snippet")
               /\ Shown("warning", snippet.value)

=============================================================================
